---- MODULE Spec2Model ----
(***************************************************************************)
(* Model of the two Netlify functions of the repository:                   *)
(*   - the command relay (command-queue.js, two revisions: the plaintext   *)
(*     revision and the JSON revision), a single in-memory slot per hot    *)
(*     function instance;                                                  *)
(*   - the generation adapter (generate-lua-code.js, three revisions).     *)
(* Each handler is an async function; the relay handler contains no await, *)
(* so on one instance a started handler runs to completion before another  *)
(* queued request is started.                                              *)
(***************************************************************************)
EXTENDS Integers, Sequences, FiniteSets, TLC

VARIABLES
    variant,        \* which revision of command-queue.js is deployed
    up,             \* the function instances the platform routes requests to
    commandQueue,   \* per instance: the module-level object {luaCode, timestamp}
    now,            \* last value returned by new Date()
    req,            \* the requests in flight: position in the handler, event, locals
    resp,           \* the response returned last
    prevOp,         \* history: per instance, the last operation that changed the slot
    lastCode        \* history: per instance, the code of the accepted write not yet read

relayVars == <<variant, up, commandQueue, now, req, resp, prevOp, lastCode>>

VARIABLES
    backend,        \* which revision of generate-lua-code.js is deployed
    apiKey,         \* process.env.GEMINI_API_KEY is set
    aPc,            \* position of the adapter request in its handler
    aEvent,         \* the event of the adapter request
    calls,          \* outbound calls made for the adapter request
    sent,           \* the outbound call: model in the URL or payload, forwarded keys
    upstream,       \* the answer of the backend to the outbound call
    aResp           \* the response of the adapter

adapterVars == <<backend, apiKey, aPc, aEvent, calls, sent, upstream, aResp>>

vars == <<relayVars, adapterVars>>

----------------------------------------------------------------------------
(* Bounds *)

MaxInflight == 2    \* number of requests in flight at the same time
MaxClock == 2       \* the clock takes the values 1..MaxClock
MaxLen == 2         \* length of the prompts and of the generated texts

Reqs == 1..MaxInflight
Instances == {"A", "B"}
Variants == {"text", "json"}

----------------------------------------------------------------------------
(* Values *)

Null == 0                   \* the null timestamp
Undefined == "undefined"    \* JavaScript undefined (absent property)
Garbage == [valid |-> FALSE, code |-> "undefined"]  \* a text JSON.parse throws on
NoBody == [enc |-> "none", text |-> Garbage]        \* event.body of a request without body

Codes == {"", "ab", "hello"}

\* a decoded JSON text: an object with or without the "code" property
JsonTexts == {Garbage} \cup {[valid |-> TRUE, code |-> c] : c \in Codes \cup {Undefined}}

\* the POST requests: a body that is not JSON, a body without "code", the
\* codes sent as they are, and one code sent base64-encoded
PostEvents ==
    {[httpMethod |-> "POST", isBase64Encoded |-> FALSE, body |-> [enc |-> "plain", text |-> t]] :
        t \in JsonTexts \ {[valid |-> TRUE, code |-> "hello"]}}
    \cup {[httpMethod |-> "POST", isBase64Encoded |-> TRUE,
           body |-> [enc |-> "base64", text |-> [valid |-> TRUE, code |-> "hello"]]]}

OtherEvents ==
    {[httpMethod |-> m, isBase64Encoded |-> FALSE, body |-> NoBody] : m \in {"GET", "PUT"}}

Events == PostEvents \cup OtherEvents

----------------------------------------------------------------------------
(* Helpers of the handler *)

\* JavaScript truthiness of a value of the "code" property
Truthy(v) == v \notin {"", Undefined}

\* Buffer.from(body, 'base64').toString('utf8'): decoding a base64 text gives
\* the text back, decoding a text that is not base64 gives garbage
Base64Decode(body) ==
    IF body.enc = "base64" THEN [enc |-> "plain", text |-> body.text]
    ELSE [enc |-> "plain", text |-> Garbage]

\* JSON.parse: throws on garbage and on a text that is still base64-encoded
JsonParse(body) ==
    IF body.enc # "plain" \/ ~body.text.valid
    THEN [threw |-> TRUE, value |-> Garbage]
    ELSE [threw |-> FALSE, value |-> body.text]

getRequestBody(event) ==
    LET body == IF event.isBase64Encoded THEN Base64Decode(event.body) ELSE event.body
    IN  JsonParse(body)

None == [status |-> 0, contentType |-> "", code |-> "", timestamp |-> Null, message |-> ""]

Response(status, contentType, code, timestamp, message) ==
    [status |-> status, contentType |-> contentType, code |-> code,
     timestamp |-> timestamp, message |-> message]

InitialQueue == [luaCode |-> "", timestamp |-> Null]

NoEvent == [httpMethod |-> "", isBase64Encoded |-> FALSE, body |-> NoBody]

Idle == [pc |-> "idle", inst |-> "A", event |-> NoEvent, luaCode |-> "", timestamp |-> Null]

\* Store if all instances shared one commandQueue
StoreShared(i) == "A"

\* the process whose module-level commandQueue a request of instance i uses
Store(i) == i

\* CanRun if the handler yielded between reading and clearing the slot
CanRunAlways(r) == TRUE

\* JavaScript runs a handler without await to completion: a request is started
\* only when no other request of the same instance is inside its handler
CanRun(r) ==
    \A q \in Reqs \ {r} : req[q].inst = req[r].inst => req[q].pc # "mid"

\* new Date(): the clock does not go back
Clock == now..(IF now < MaxClock THEN now + 1 ELSE now)

Pending(i) == Truthy(commandQueue[i].luaCode)

----------------------------------------------------------------------------
(* Initial state: every instance starts with the module-level initial value *)

InitRelay ==
    /\ variant \in Variants
    /\ commandQueue = [i \in Instances |-> InitialQueue]
    /\ now = 1
    /\ req = [r \in Reqs |-> Idle]
    /\ resp = None
    /\ prevOp = [i \in Instances |-> "start"]
    /\ lastCode = [i \in Instances |-> ""]

\* the adapter is not called
AdapterOff ==
    /\ backend = "native"
    /\ apiKey = FALSE
    /\ aPc = "idle"
    /\ aEvent = [httpMethod |-> "", isBase64Encoded |-> FALSE,
                 body |-> [enc |-> "none", text |-> Garbage]]
    /\ calls = 0
    /\ sent = [model |-> "", extra |-> FALSE, prompt |-> [present |-> FALSE, text |-> <<>>]]
    /\ upstream = [kind |-> "none", ok |-> FALSE, status |-> 0, body |-> "",
                   errmsg |-> Undefined, text |-> <<>>, inner |-> ""]
    /\ aResp = [status |-> 0, message |-> "", text |-> <<>>, fallback |-> FALSE]

\* one hot instance
Init == InitRelay /\ up = {"A"} /\ AdapterOff

\* two hot instances
InitTwo == InitRelay /\ up = Instances /\ AdapterOff

----------------------------------------------------------------------------
(* Actions *)

\* the platform hands a request to an instance
Arrive(r, i, e) ==
    /\ i \in up
    /\ req[r].pc = "idle"
    /\ \A q \in Reqs : q < r => req[q].pc # "idle"
    /\ req' = [req EXCEPT ![r] = [@ EXCEPT !.pc = "queued", !.inst = i, !.event = e]]
    /\ UNCHANGED <<variant, up, commandQueue, now, resp, prevOp, lastCode>>
    /\ UNCHANGED adapterVars

\* Stored if a write did not replace a pending command
StoredIfEmpty(q, code, t) ==
    IF Truthy(q.luaCode) THEN q ELSE [luaCode |-> code, timestamp |-> t]

\* the slot after the storing statements of the POST handler
Stored(q, code, t) == [luaCode |-> code, timestamp |-> t]

\* the POST branch if it stored the code before it validated it
PostStoresFirst(r) ==
    LET i == req[r].inst
        s == Store(i)
        parsed == getRequestBody(req[r].event)
    IN
    /\ req[r].pc = "queued"
    /\ CanRun(r)
    /\ req[r].event.httpMethod = "POST"
    /\ IF parsed.threw
       THEN /\ resp' = Response(500, "", "", Null, "Internal Server Error")
            /\ UNCHANGED <<commandQueue, now, prevOp, lastCode>>
       ELSE IF ~Truthy(parsed.value.code)
       THEN /\ resp' = Response(400, "", "", Null, "Missing code")
            /\ commandQueue' = [commandQueue EXCEPT ![s] = Stored(@, "", now)]
            /\ prevOp' = [prevOp EXCEPT ![i] = "read"]
            /\ lastCode' = [lastCode EXCEPT ![i] = ""]
            /\ UNCHANGED now
       ELSE \E t \in Clock :
            /\ now' = t
            /\ commandQueue' = [commandQueue EXCEPT ![s] = Stored(@, parsed.value.code, t)]
            /\ prevOp' = [prevOp EXCEPT ![i] = IF Pending(s) THEN "overwrite" ELSE "write"]
            /\ lastCode' = [lastCode EXCEPT ![i] = parsed.value.code]
            /\ resp' = Response(200, "application/json", "", Null, "Command queued")
    /\ req' = [req EXCEPT ![r] = Idle]
    /\ UNCHANGED <<variant, up>>
    /\ UNCHANGED adapterVars

\* POST branch: parse, validate, store
Post(r) ==
    LET i == req[r].inst
        s == Store(i)
        parsed == getRequestBody(req[r].event)
    IN
    /\ req[r].pc = "queued"
    /\ CanRun(r)
    /\ req[r].event.httpMethod = "POST"
    /\ IF parsed.threw
       THEN /\ resp' = Response(500, "", "", Null, "Internal Server Error")
            /\ UNCHANGED <<commandQueue, now, prevOp, lastCode>>
       ELSE IF ~Truthy(parsed.value.code)
       THEN /\ resp' = Response(400, "", "", Null, "Missing code")
            /\ UNCHANGED <<commandQueue, now, prevOp, lastCode>>
       ELSE \E t \in Clock :
            /\ now' = t
            /\ commandQueue' = [commandQueue EXCEPT ![s] = Stored(@, parsed.value.code, t)]
            /\ prevOp' = [prevOp EXCEPT ![i] = IF Pending(s) THEN "overwrite" ELSE "write"]
            /\ lastCode' = [lastCode EXCEPT ![i] = parsed.value.code]
            /\ resp' = Response(200, "application/json", "", Null, "Command queued")
    /\ req' = [req EXCEPT ![r] = Idle]
    /\ UNCHANGED <<variant, up>>
    /\ UNCHANGED adapterVars

\* GET branch, first half: read the slot into the locals
GetRead(r) ==
    LET s == Store(req[r].inst) IN
    /\ req[r].pc = "queued"
    /\ CanRun(r)
    /\ req[r].event.httpMethod = "GET"
    /\ req' = [req EXCEPT ![r] = [@ EXCEPT !.pc = "mid",
                  !.luaCode = IF Truthy(commandQueue[s].luaCode)
                              THEN commandQueue[s].luaCode ELSE "",
                  !.timestamp = IF variant = "json" THEN commandQueue[s].timestamp ELSE Null]]
    /\ UNCHANGED <<variant, up, commandQueue, now, resp, prevOp, lastCode>>
    /\ UNCHANGED adapterVars

\* Cleared if the GET handler did not clear the slot
ClearedNot(q) == q

\* the slot after the clearing branch of the GET handler
Cleared(q) ==
    IF variant = "json" THEN [luaCode |-> "", timestamp |-> Null]
    ELSE [q EXCEPT !.luaCode = ""]

\* ReadResponse if the two messages of the JSON answer were swapped
ReadResponseSwapped(luaCode, timestamp) ==
    IF variant = "json"
    THEN Response(200, "application/json", luaCode, timestamp,
                  IF Truthy(luaCode) THEN "No new command." ELSE "Command found.")
    ELSE Response(200, "text/plain", luaCode, Null, "")

\* the answer of the GET handler
ReadResponse(luaCode, timestamp) ==
    IF variant = "json"
    THEN Response(200, "application/json", luaCode, timestamp,
                  IF Truthy(luaCode) THEN "Command found." ELSE "No new command.")
    ELSE Response(200, "text/plain", luaCode, Null, "")

\* GET branch, second half: clear the slot if there was code, and answer
GetClear(r) ==
    LET i == req[r].inst
        s == Store(i)
        luaCode == req[r].luaCode
    IN
    /\ req[r].pc = "mid"
    /\ IF Truthy(luaCode)
       THEN /\ commandQueue' = [commandQueue EXCEPT ![s] = Cleared(@)]
            /\ prevOp' = [prevOp EXCEPT ![i] = "read"]
            /\ lastCode' = [lastCode EXCEPT ![i] = ""]
       ELSE UNCHANGED <<commandQueue, prevOp, lastCode>>
    /\ resp' = ReadResponse(luaCode, req[r].timestamp)
    /\ req' = [req EXCEPT ![r] = Idle]
    /\ UNCHANGED <<variant, up, now>>
    /\ UNCHANGED adapterVars

\* any other method
MethodNotAllowed(r) ==
    /\ req[r].pc = "queued"
    /\ CanRun(r)
    /\ req[r].event.httpMethod \notin {"POST", "GET"}
    /\ resp' = Response(405, "", "", Null, "Method Not Allowed")
    /\ req' = [req EXCEPT ![r] = Idle]
    /\ UNCHANGED <<variant, up, commandQueue, now, prevOp, lastCode>>
    /\ UNCHANGED adapterVars

\* the platform recycles an instance between two requests: the module is
\* evaluated again
Recycle(i) ==
    /\ i \in up
    /\ \A q \in Reqs : req[q].pc # "idle" => req[q].inst # i
    /\ commandQueue' = [commandQueue EXCEPT ![i] = InitialQueue]
    /\ prevOp' = [prevOp EXCEPT ![i] = "start"]
    /\ lastCode' = [lastCode EXCEPT ![i] = ""]
    /\ UNCHANGED <<variant, up, now, req, resp>>
    /\ UNCHANGED adapterVars

Next ==
    \/ \E r \in Reqs, i \in Instances, e \in Events : Arrive(r, i, e)
    \/ \E r \in Reqs : Post(r)
    \/ \E r \in Reqs : GetRead(r)
    \/ \E r \in Reqs : GetClear(r)
    \/ \E r \in Reqs : MethodNotAllowed(r)
    \/ \E i \in Instances : Recycle(i)

Spec == Init /\ [][Next]_vars

\* two instances, with the requests that read and write the slot
TwoEvents ==
    {e \in Events : \/ e.httpMethod = "GET"
                    \/ (e.httpMethod = "POST" /\ Truthy(getRequestBody(e).value.code))}

ArriveTwo(r, i, e) == e \in TwoEvents /\ Arrive(r, i, e)

NextTwo ==
    \/ \E r \in Reqs, i \in Instances, e \in Events : ArriveTwo(r, i, e)
    \/ \E r \in Reqs : Post(r)
    \/ \E r \in Reqs : GetRead(r)
    \/ \E r \in Reqs : GetClear(r)
    \/ \E i \in Instances : Recycle(i)

SpecTwo == InitTwo /\ [][NextTwo]_vars

----------------------------------------------------------------------------
(* The relay with a consumer that keeps polling one instance that stays up *)

\* the first connection is the consumer's and carries its polls; the other
\* connections carry the requests of the producers and of anyone else
ArriveLive(r, e) ==
    /\ (r = 1 => e.httpMethod = "GET")
    /\ Arrive(r, "A", e)

NextLive ==
    \/ \E r \in Reqs, e \in Events : ArriveLive(r, e)
    \/ \E r \in Reqs : Post(r)
    \/ \E r \in Reqs : GetRead(r)
    \/ \E r \in Reqs : GetClear(r)
    \/ \E r \in Reqs : MethodNotAllowed(r)

\* the consumer sends its next poll, and the runtime runs every handler it
\* has accepted
Fairness ==
    /\ WF_vars(\E e \in Events : ArriveLive(1, e))
    /\ \A r \in Reqs : /\ WF_vars(Post(r))
                       /\ WF_vars(GetRead(r))
                       /\ WF_vars(GetClear(r))
                       /\ WF_vars(MethodNotAllowed(r))

SpecLive == Init /\ [][NextLive]_vars /\ Fairness

----------------------------------------------------------------------------
(* The generation adapter: values *)

Backends == {"native", "structured", "chat"}

Chars == {" ", "x"}

\* the texts: prompts and generated code, as sequences of characters
Texts == UNION {[1..n -> Chars] : n \in 0..MaxLen}

\* String.prototype.trim
RECURSIVE Trim(_)
Trim(t) ==
    IF t = <<>> THEN t
    ELSE IF Head(t) = " " THEN Trim(Tail(t))
    ELSE IF t[Len(t)] = " " THEN Trim(SubSeq(t, 1, Len(t) - 1))
    ELSE t

\* an optional text property of a JSON object
NoText == [present |-> FALSE, text |-> <<>>]

OptTexts == {NoText} \cup {[present |-> TRUE, text |-> t] : t \in Texts}

\* the model hints a caller sends
Hints == {Undefined, "gemini-2.5-pro", "gpt-4o"}

\* the request bodies: a text that is not JSON, the JSON text null, and objects
\* with an optional prompt, an optional model hint and optional further keys
AGarbage == [valid |-> FALSE, isNull |-> FALSE, prompt |-> NoText, model |-> Undefined,
             extra |-> FALSE]

ANull == [valid |-> TRUE, isNull |-> TRUE, prompt |-> NoText, model |-> Undefined,
          extra |-> FALSE]

AObjects == [valid : {TRUE}, isNull : {FALSE}, prompt : OptTexts, model : Hints,
             extra : BOOLEAN]

AEvents ==
    {[httpMethod |-> "POST", isBase64Encoded |-> FALSE, body |-> [enc |-> "plain", text |-> t]] :
        t \in AObjects \cup {AGarbage, ANull}}
    \cup {[httpMethod |-> "POST", isBase64Encoded |-> TRUE,
           body |-> [enc |-> "base64",
                     text |-> [valid |-> TRUE, isNull |-> FALSE,
                               prompt |-> [present |-> TRUE, text |-> <<"x">>],
                               model |-> Undefined, extra |-> FALSE]]],
          [httpMethod |-> "GET", isBase64Encoded |-> FALSE, body |-> NoBody]}

\* the answers of the backend: the call fails, or an HTTP response with a
\* status and a body of one of the shapes the handlers tell apart
NoUpstream == [kind |-> "none", ok |-> FALSE, status |-> 0, body |-> "", errmsg |-> Undefined,
               text |-> <<>>, inner |-> ""]

Http(ok, status, body, errmsg, text, inner) ==
    [kind |-> "http", ok |-> ok, status |-> status, body |-> body, errmsg |-> errmsg,
     text |-> text, inner |-> inner]

ErrorStatuses == {429, 503}

Upstreams ==
    {[NoUpstream EXCEPT !.kind = "transport", !.errmsg = "ECONNRESET"]}
    \cup {Http(FALSE, st, "nojson", Undefined, <<>>, "") : st \in ErrorStatuses}
    \cup {Http(FALSE, st, "error", m, <<>>, "") :
            st \in ErrorStatuses, m \in {Undefined, "rate limited"}}
    \cup {Http(TRUE, 200, b, Undefined, <<>>, "") :
            b \in {"nojson", "nolist", "emptylist", "nocontent", "noparts"}}
    \cup {Http(TRUE, 200, "text", Undefined, t, "plain") : t \in Texts}
    \cup {Http(TRUE, 200, "text", Undefined, t, "object") : t \in Texts}
    \cup {Http(TRUE, 200, "text", Undefined, <<>>, i) : i \in {"invalid", "null", "nocode"}}

NoResponse == [status |-> 0, message |-> "", text |-> <<>>, fallback |-> FALSE]

\* an error response
AError(status, message) ==
    [status |-> status, message |-> message, text |-> <<>>, fallback |-> FALSE]

\* a response that carries code: the generated text or a built-in comment
ACode(status, text, fallback) ==
    [status |-> status, message |-> "", text |-> text, fallback |-> fallback]

NoCall == [model |-> "", extra |-> FALSE, prompt |-> NoText]

Falsy(p) == ~p.present \/ p.text = <<>>

----------------------------------------------------------------------------
(* The generation adapter: the handlers up to the outbound call *)

Respond(r) == [next |-> "done", resp |-> r, sent |-> NoCall]

Fetch(model, extra, prompt) ==
    [next |-> "fetch", resp |-> NoResponse,
     sent |-> [model |-> model, extra |-> extra, prompt |-> prompt]]

\* the handler throws outside its try blocks
Crash == [next |-> "crash", resp |-> NoResponse, sent |-> NoCall]

NativeFront(e) ==
    LET parsed == JsonParse(e.body) IN
    IF e.httpMethod # "POST" THEN Respond(AError(405, "Method Not Allowed"))
    ELSE IF ~apiKey THEN Respond(AError(500, "GEMINI_API_KEY not set"))
    ELSE IF parsed.threw THEN Respond(AError(400, "Invalid JSON body"))
    ELSE IF parsed.value.isNull THEN Crash
    ELSE Fetch(IF parsed.value.model = Undefined
               THEN "gemini-2.5-flash-preview-09-2025" ELSE parsed.value.model,
               parsed.value.extra, parsed.value.prompt)

StructuredFront(e) ==
    LET parsed == getRequestBody(e) IN
    IF e.httpMethod # "POST" THEN Respond(AError(405, "Method Not Allowed"))
    ELSE IF ~apiKey THEN Respond(AError(500, "GEMINI_API_KEY not configured"))
    ELSE IF parsed.threw \/ parsed.value.isNull
    THEN Respond(AError(500, "Internal Server Error"))
    ELSE IF Falsy(parsed.value.prompt) THEN Respond(AError(400, "Missing prompt"))
    ELSE Fetch("gemini-2.5-flash-preview-09-2025", FALSE, parsed.value.prompt)

\* the chat handler if it did not look at the API key
ChatFrontKeyless(e) ==
    LET parsed == getRequestBody(e) IN
    IF e.httpMethod # "POST" THEN Respond(AError(405, "Method Not Allowed"))
    ELSE IF parsed.threw \/ parsed.value.isNull
    THEN Respond(AError(500, "Internal Server Error"))
    ELSE IF Falsy(parsed.value.prompt) THEN Respond(AError(400, "Missing prompt"))
    ELSE Fetch("google/gemini-2.5-pro", FALSE, parsed.value.prompt)

ChatFront(e) ==
    LET parsed == getRequestBody(e) IN
    IF e.httpMethod # "POST" THEN Respond(AError(405, "Method Not Allowed"))
    ELSE IF parsed.threw \/ parsed.value.isNull
    THEN Respond(AError(500, "Internal Server Error"))
    ELSE IF Falsy(parsed.value.prompt) THEN Respond(AError(400, "Missing prompt"))
    ELSE IF ~apiKey THEN Respond(AError(500, "GEMINI_API_KEY not configured"))
    ELSE Fetch("google/gemini-2.5-pro", FALSE, parsed.value.prompt)

Front(e) ==
    CASE backend = "native" -> NativeFront(e)
      [] backend = "structured" -> StructuredFront(e)
      [] backend = "chat" -> ChatFront(e)

----------------------------------------------------------------------------
(* The generation adapter: the handlers after the outbound call *)

\* the native handler if its catch block dropped the message of the error
NativeBackSilent(u) ==
    IF u.kind = "transport" \/ u.body = "nojson"
    THEN AError(500, "Internal server error during API call")
    ELSE IF ~u.ok
    THEN AError(u.status, IF u.errmsg # Undefined THEN u.errmsg
                          ELSE "Gemini API returned an error.")
    ELSE IF u.body = "text" /\ u.text # <<>>
    THEN ACode(200, u.text, FALSE)
    ELSE AError(500, "Failed to extract generated Lua code")

NativeBack(u) ==
    IF u.kind = "transport" THEN AError(500, u.errmsg)
    ELSE IF u.body = "nojson" THEN AError(500, "invalid json")
    ELSE IF ~u.ok
    THEN AError(u.status, IF u.errmsg # Undefined THEN u.errmsg
                          ELSE "Gemini API returned an error.")
    ELSE IF u.body = "text" /\ u.text # <<>>
    THEN ACode(200, u.text, FALSE)
    ELSE AError(500, "Failed to extract generated Lua code")

\* the error branch shared by the structured and the chat handler
UpstreamFailed(u) ==
    AError(u.status, IF u.errmsg # Undefined THEN u.errmsg ELSE "raw error body")

StructuredBack(u) ==
    IF u.kind = "transport" THEN AError(500, u.errmsg)
    ELSE IF u.body = "nojson" THEN AError(500, "invalid json")
    ELSE IF ~u.ok THEN UpstreamFailed(u)
    ELSE IF u.body \in {"nolist", "noparts"} THEN AError(500, "Internal Server Error")
    ELSE IF u.body \in {"emptylist", "nocontent"} THEN ACode(500, <<>>, TRUE)
    ELSE IF u.inner = "plain" /\ u.text = <<>> THEN ACode(500, <<>>, TRUE)
    ELSE IF u.inner \in {"plain", "invalid", "null"} THEN AError(500, "Internal Server Error")
    ELSE IF u.inner = "nocode" \/ Trim(u.text) = <<>> THEN ACode(200, <<>>, TRUE)
    ELSE ACode(200, Trim(u.text), FALSE)

ChatBack(u) ==
    IF u.kind = "transport" THEN AError(500, u.errmsg)
    ELSE IF u.body = "nojson" THEN AError(500, "invalid json")
    ELSE IF ~u.ok THEN UpstreamFailed(u)
    ELSE IF u.body = "nolist" THEN AError(500, "Internal Server Error")
    ELSE IF u.body = "text" /\ Trim(u.text) # <<>> THEN ACode(200, Trim(u.text), FALSE)
    ELSE ACode(200, <<>>, TRUE)

\* the handler of revision b after the outbound call
BackOf(b, u) ==
    CASE b = "native" -> NativeBack(u)
      [] b = "structured" -> StructuredBack(u)
      [] b = "chat" -> ChatBack(u)

Back(u) == BackOf(backend, u)

\* the answers a backend of the deployed kind gives: the text of the
\* structured backend is a JSON text, the text of the others is the code
UpstreamsOf(b) ==
    {u \in Upstreams : u.body = "text" =>
        IF b = "structured" THEN u.inner # "" ELSE u.inner = "plain"}

----------------------------------------------------------------------------
(* The generation adapter: initial state and actions *)

AdapterIdle ==
    /\ aPc = "idle"
    /\ aEvent = NoEvent
    /\ calls = 0
    /\ sent = NoCall
    /\ upstream = NoUpstream
    /\ aResp = NoResponse

\* a request arrives and the handler runs up to its first await
AStart(e) ==
    /\ aPc = "idle"
    /\ aEvent' = e
    /\ aPc' = Front(e).next
    /\ aResp' = Front(e).resp
    /\ sent' = Front(e).sent
    /\ calls' = IF Front(e).next = "fetch" THEN calls + 1 ELSE calls
    /\ UNCHANGED <<backend, apiKey, upstream>>
    /\ UNCHANGED relayVars

\* the return of the outbound call if a failed call were tried once more
AFetchAgain(u) ==
    /\ aPc = "fetch"
    /\ u \in UpstreamsOf(backend)
    /\ IF (u.kind = "transport" \/ ~u.ok) /\ calls < 2
       THEN /\ calls' = calls + 1
            /\ UNCHANGED <<aPc, upstream, aResp>>
       ELSE /\ aPc' = "done"
            /\ upstream' = u
            /\ aResp' = Back(u)
            /\ UNCHANGED calls
    /\ UNCHANGED <<backend, apiKey, aEvent, sent>>
    /\ UNCHANGED relayVars

\* the outbound call returns and the handler runs to its end
AFetch(u) ==
    /\ aPc = "fetch"
    /\ u \in UpstreamsOf(backend)
    /\ aPc' = "done"
    /\ upstream' = u
    /\ aResp' = Back(u)
    /\ UNCHANGED <<backend, apiKey, aEvent, calls, sent>>
    /\ UNCHANGED relayVars

\* the caller has its answer; the next request may arrive
AReset ==
    /\ aPc \in {"done", "crash"}
    /\ aPc' = "idle"
    /\ aEvent' = NoEvent
    /\ calls' = 0
    /\ sent' = NoCall
    /\ upstream' = NoUpstream
    /\ aResp' = NoResponse
    /\ UNCHANGED <<backend, apiKey>>
    /\ UNCHANGED relayVars

InitAdapter ==
    /\ InitRelay
    /\ variant = "json"
    /\ up = {}
    /\ backend \in Backends
    /\ apiKey \in BOOLEAN
    /\ AdapterIdle

NextAdapter ==
    \/ \E e \in AEvents : AStart(e)
    \/ \E u \in Upstreams : AFetch(u)
    \/ AReset

SpecAdapter == InitAdapter /\ [][NextAdapter]_vars

----------------------------------------------------------------------------
(* Properties of the relay *)

\* request r returns its response in this step
Completes(r) == req[r].pc # "idle" /\ req'[r].pc = "idle"

IsGet(r) == req[r].event.httpMethod = "GET"

IsPost(r) == req[r].event.httpMethod = "POST"

\* the answer of a read that found nothing, in either response shape
EmptyMarker(rsp) ==
    /\ rsp.status = 200
    /\ rsp.code = ""
    /\ \/ rsp.contentType = "text/plain"
       \/ (rsp.contentType = "application/json" /\ rsp.message = "No new command."
           /\ rsp.timestamp = Null)

Written(i) == prevOp[i] \in {"write", "overwrite"}

\* C1: a read returns content only when a write was accepted since the last
\* read that returned content (and since the last start), it then returns the
\* code of that write and leaves the slot Empty; a read whose instance last
\* delivered content, with no write in between, returns the empty marker.
\* Hence no accepted write is returned by two reads.
AtMostOnce ==
    [][\A r \in Reqs : (Completes(r) /\ IsGet(r)) =>
          LET i == req[r].inst IN
          /\ Truthy(resp'.code) => (Written(i) /\ commandQueue'[i].luaCode = "")
          /\ Written(i) => resp'.code = lastCode[i]
          /\ prevOp[i] = "read" => EmptyMarker(resp')]_vars

\* a read has returned the empty marker after a read that returned content
AtMostOnceWitness ==
    \E i \in up : prevOp[i] = "read" /\ EmptyMarker(resp) /\ lastCode[i] = ""
                  /\ \A r \in Reqs : req[r].pc = "idle"

\* C2: the pending code is always the code of the last accepted write, an
\* accepted write replaces whatever was pending, and every non-empty code a
\* read returns is the code of the last accepted write of its instance.
LastWriteWins ==
    /\ [](\A i \in Instances : Pending(i) => commandQueue[i].luaCode = lastCode[i])
    /\ [][\A r \in Reqs : Completes(r) =>
            LET i == req[r].inst IN
            /\ (IsGet(r) /\ Truthy(resp'.code)) => resp'.code = lastCode[i]
            /\ (IsPost(r) /\ resp'.status = 200) =>
                  commandQueue'[i].luaCode = getRequestBody(req[r].event).value.code]_vars

\* a read is returning the code "ab" that was written over a pending command
LastWriteWinsWitness ==
    \E r \in Reqs : /\ req[r].pc = "mid"
                    /\ prevOp[req[r].inst] = "overwrite"
                    /\ req[r].luaCode = "ab"

\* C3: a request that holds content read from the slot is the only request
\* inside the handler of its instance, and the slot still holds that content:
\* no second read can observe the same pending command.
RacingReads ==
    \A r \in Reqs : (req[r].pc = "mid" /\ Truthy(req[r].luaCode)) =>
        /\ commandQueue[req[r].inst].luaCode = req[r].luaCode
        /\ Written(req[r].inst)
        /\ \A q \in Reqs \ {r} : req[q].inst = req[r].inst => req[q].pc # "mid"

\* a read holds the content while another read of the same instance is waiting
RacingReadsWitness ==
    \E r, q \in Reqs : /\ r # q
                       /\ req[r].pc = "mid" /\ Truthy(req[r].luaCode)
                       /\ req[q].pc = "queued" /\ IsGet(q)
                       /\ req[q].inst = req[r].inst

\* C4: a write whose code is empty or shorter than 5 characters is answered
\* 400 and leaves the slot unchanged.
WriteBoundary ==
    [][\A r \in Reqs : (Completes(r) /\ IsPost(r)) =>
          LET parsed == getRequestBody(req[r].event) IN
          (~parsed.threw /\ parsed.value.code \in Codes /\ Len(parsed.value.code) < 5) =>
              (resp'.status = 400 /\ commandQueue' = commandQueue)]_vars

\* C5: a read of an Empty slot returns the empty marker and leaves code and
\* timestamp of the slot as they were.
EmptyReadIdempotent ==
    [][\A r \in Reqs : (Completes(r) /\ IsGet(r) /\ ~Pending(req[r].inst)) =>
          (EmptyMarker(resp') /\ commandQueue' = commandQueue)]_vars

\* a read has returned the empty marker for a slot that keeps a timestamp
EmptyReadIdempotentWitness ==
    \E i \in up : /\ ~Pending(i)
                  /\ EmptyMarker(resp)
                  /\ (variant = "text" => commandQueue[i].timestamp # Null)
                  /\ prevOp[i] \in {"start", "read"}

\* C6: the slot is Pending exactly when a write was accepted since the later
\* of the last start or recycle and the last read that returned content; it
\* becomes Pending or changes while Pending only by an accepted write, and
\* becomes Empty only by a read that returns its code or by a recycle.
Lifecycle ==
    /\ [](\A i \in Instances : Pending(i) <=> Written(i))
    /\ [][\A i \in Instances :
            LET byWrite == \E r \in Reqs : /\ Completes(r) /\ IsPost(r) /\ req[r].inst = i
                                           /\ resp'.status = 200
                byRead == \E r \in Reqs : /\ Completes(r) /\ IsGet(r) /\ req[r].inst = i
                                          /\ resp'.code = commandQueue[i].luaCode
                byRecycle == req' = req /\ prevOp'[i] = "start"
            IN
            /\ (Truthy(commandQueue'[i].luaCode) /\ commandQueue'[i] # commandQueue[i]) => byWrite
            /\ (Pending(i) /\ commandQueue'[i].luaCode = "") => (byRead \/ byRecycle)
            /\ byRecycle => commandQueue'[i].luaCode = ""]_vars

\* an instance was recycled after it accepted a write
LifecycleWitness ==
    \E i \in up : prevOp[i] = "start" /\ resp.message = "Command queued" /\ ~Pending(i)

\* C7: a request changes only the slot of its own instance, a read returns
\* what the slot of its own instance holds, and a read of an instance that
\* was recycled and not written since returns nothing.
InstanceIsolation ==
    [][\A r \in Reqs : Completes(r) =>
          LET i == req[r].inst IN
          /\ \A j \in Instances \ {i} : commandQueue'[j] = commandQueue[j]
          /\ IsGet(r) => resp'.code = commandQueue[i].luaCode
          /\ (IsGet(r) /\ prevOp[i] = "start") => resp'.code = ""]_vars

\* a read has found nothing while the other instance holds a pending command
InstanceIsolationWitness ==
    /\ up = Instances
    /\ \E i \in Instances : Pending(i) /\ prevOp[i] = "write"
    /\ EmptyMarker(resp)

\* C8: the answer of a read of an Empty slot never has a blank body.
ExplicitEmptyMarker ==
    ~(resp.status = 200 /\ resp.contentType = "text/plain" /\ resp.code = "")

----------------------------------------------------------------------------
(* Properties of the adapter *)

\* the body of the request is a JSON object
IsEnvelope(e) == e.body.text.valid /\ ~e.body.text.isNull

\* the prompt of the request is missing, empty or blank
BlankPrompt(e) == ~e.body.text.prompt.present \/ Trim(e.body.text.prompt.text) = <<>>

\* C9: with the API key configured, a POST request whose prompt is missing or
\* empty after trimming is answered 400 and no outbound call is made for it.
PromptValidation ==
    (aPc # "idle" /\ apiKey /\ aEvent.httpMethod = "POST" /\ IsEnvelope(aEvent)
        /\ BlankPrompt(aEvent))
    => (aPc = "done" /\ aResp.status = 400 /\ calls = 0)

\* C10: with the API key configured, a POST request whose body is not JSON is
\* answered 400 and no outbound call is made for it.
UnparsableBody ==
    (aPc # "idle" /\ apiKey /\ aEvent.httpMethod = "POST" /\ ~aEvent.body.text.valid)
    => (aPc = "done" /\ aResp.status = 400 /\ calls = 0)

\* C11 (as stated): without the API key every POST request ends with status 500
\* and no backend call, in every backend variant.
MissingApiKeyAlways500 ==
    (aPc # "idle" /\ ~apiKey /\ aEvent.httpMethod = "POST")
    => (aPc = "done" /\ aResp.status = 500 /\ calls = 0)

\* C11: without the API key no POST request reaches the backend and each ends
\* at once; it ends with status 500, except that the chat handler validates the
\* prompt before it looks at the key and answers a parsed request that has no
\* prompt with status 400.
MissingApiKey ==
    (aPc # "idle" /\ ~apiKey /\ aEvent.httpMethod = "POST")
    => /\ aPc = "done"
       /\ calls = 0
       /\ sent = NoCall
       /\ aResp.status =
            IF backend = "chat" /\ ~getRequestBody(aEvent).threw /\ ~getRequestBody(aEvent).value.isNull
                /\ Falsy(getRequestBody(aEvent).value.prompt)
            THEN 400 ELSE 500

\* a POST request with a prompt has been answered without the API key
MissingApiKeyWitness ==
    /\ aPc = "done" /\ ~apiKey /\ aEvent.httpMethod = "POST"
    /\ ~getRequestBody(aEvent).threw /\ ~Falsy(getRequestBody(aEvent).value.prompt)
    /\ backend = "chat"
    /\ aResp.status = 500 /\ calls = 0

\* the backend answered with success and no generated text can be taken from
\* the answer: the body is no JSON, a field or the list entry is missing, the
\* text is empty, or the JSON text of the structured backend does not parse to
\* an object with a non-empty lua_code
NoExtractableText(u) ==
    /\ u.kind = "http" /\ u.ok
    /\ \/ u.body # "text"
       \/ u.text = <<>>
       \/ (backend = "structured" /\ u.inner # "object")

\* C12: a backend success from which no text can be extracted is answered with
\* status 500, never with a success.
ExtractionFailure ==
    (aPc = "done" /\ calls = 1 /\ NoExtractableText(upstream)) => aResp.status = 500

\* the backend answered with a non-success status
UpstreamError(u) == u.kind = "http" /\ ~u.ok

\* C13: a backend answer with non-success status S is answered with status S
\* and with the backend's error.message if there is one, else with the raw
\* error body.
UpstreamErrorMapping ==
    (aPc = "done" /\ calls = 1 /\ UpstreamError(upstream))
    => /\ aResp.status = upstream.status
       /\ aResp.message = IF upstream.errmsg # Undefined THEN upstream.errmsg
                          ELSE "raw error body"

\* the request passes the method, configuration and input checks of the
\* deployed handler: a POST, the key is set, and the body parses to an object
\* that, for the prompt-based handlers, has a non-empty prompt
PassesChecks(e) ==
    /\ e.httpMethod = "POST"
    /\ apiKey
    /\ IF backend = "native"
       THEN ~e.isBase64Encoded /\ e.body.text.valid /\ ~e.body.text.isNull
       ELSE /\ e.body.text.valid /\ ~e.body.text.isNull
            /\ ~Falsy(e.body.text.prompt)

\* at most one outbound call, and exactly one for a request that passes the checks
OneCall ==
    /\ calls <= 1
    /\ (aPc # "idle" /\ PassesChecks(aEvent)) => calls = 1
    /\ (aPc # "idle" /\ ~PassesChecks(aEvent)) => calls = 0

\* when the outbound call returns, failed or not, the handler answers in the
\* same step and makes no other call
AnswersAtOnce ==
    aPc = "fetch" => (aPc' = "done" /\ calls' = calls /\ sent' = sent
                      /\ aResp'.status # 0)

\* C14: a request makes at most one outbound call, exactly one when it passes
\* the method, configuration and input checks, and a failed call is reported
\* at once without a second call.
SingleCall == []OneCall /\ [][AnswersAtOnce]_vars

\* a failed outbound call has been reported after one call
SingleCallWitness ==
    /\ aPc = "done" /\ calls = 1 /\ PassesChecks(aEvent)
    /\ (upstream.kind = "transport" \/ UpstreamError(upstream))
    /\ aResp.status >= 400

\* the prompt of the request in progress is present and non-empty
HasPrompt(e) ==
    /\ e.httpMethod = "POST" /\ e.body.text.valid /\ ~e.body.text.isNull
    /\ ~Falsy(e.body.text.prompt)

As(b, u) ==
    IF u.body = "text"
    THEN [u EXCEPT !.inner = IF b = "structured" THEN "object" ELSE "plain"]
    ELSE u

\* the answer has an equivalent for every backend
Common(u) ==
    u.body = "text" => u.inner = (IF backend = "structured" THEN "object" ELSE "plain")

\* the outcome of a response: its status and its code up to outer whitespace
Outcome(r) == [status |-> r.status, code |-> Trim(r.text), fallback |-> r.fallback]

\* C16: for equivalent answers of the backend the native, the structured and
\* the chat handler give the same outcome: the same code, the same extraction
\* error or the same upstream status.
BackendIndependence ==
    (aPc = "done" /\ calls = 1 /\ Common(upstream))
    => \A b \in Backends : Outcome(BackOf(b, As(b, upstream))) = Outcome(aResp)

\* C17: when the outbound call fails at the transport level the handler
\* answers with status 500, the answer carries the description of the failure,
\* and no other call is made.
TransportFailure ==
    (aPc = "done" /\ upstream.kind = "transport")
    => /\ aResp.status = 500
       /\ aResp.message = upstream.errmsg
       /\ aResp.text = <<>> /\ ~aResp.fallback
       /\ calls = 1

\* a transport failure has been answered
TransportFailureWitness ==
    /\ aPc = "done" /\ upstream.kind = "transport" /\ upstream.errmsg = "ECONNRESET"
    /\ calls = 1 /\ aResp.status = 500

\* the model each revision is configured with
DefaultModel(b) ==
    IF b = "chat" THEN "google/gemini-2.5-pro" ELSE "gemini-2.5-flash-preview-09-2025"

\* the hint of the request in progress
Hint(e) == e.body.text.model

\* C18: the model of the outbound call comes from a static mapping of hints;
\* a hint the deployed backend does not know, such as a model name of another
\* provider, is replaced by the default model and is never sent to the backend.
ModelResolution ==
    (calls = 1 /\ Hint(aEvent) = "gpt-4o") => sent.model = DefaultModel(backend)

\* C19: the body the native handler forwards holds the contents and the system
\* instruction of the caller (and an optional generation configuration) and
\* no other key the caller supplied.
NativeForwardsKnownKeys ==
    (backend = "native" /\ calls = 1) => ~sent.extra

\* the backend answered with success and a text T can be taken from the answer
ExtractableText(u) ==
    /\ u.kind = "http" /\ u.ok /\ u.body = "text" /\ u.text # <<>>
    /\ u.inner = (IF backend = "structured" THEN "object" ELSE "plain")

\* C20: when the success answer of the backend holds the text T, the handler
\* returns T with nothing added or removed but whitespace at its two ends.
RoundTrip ==
    (aPc = "done" /\ calls = 1 /\ ExtractableText(upstream))
    => /\ aResp.status = 200
       /\ ~aResp.fallback
       /\ Trim(aResp.text) = Trim(upstream.text)

\* request r is one the handler refuses: a POST whose body does not parse or
\* has no code, or a request with another method than POST and GET
Refused(r) ==
    \/ IsPost(r) /\ (getRequestBody(req[r].event).threw
                     \/ ~Truthy(getRequestBody(req[r].event).value.code))
    \/ req[r].event.httpMethod \notin {"POST", "GET"}

\* C21: a request that ends neither in an accepted write nor in a read, that
\* is a POST with an unparsable body (500), a POST without code (400) or a
\* request with another method (405), leaves code and timestamp of every slot
\* unchanged.
FailedRequestFrame ==
    [][\A r \in Reqs : (Completes(r) /\ Refused(r)) =>
          /\ commandQueue' = commandQueue
          /\ resp'.status = IF ~IsPost(r) THEN 405
                            ELSE IF getRequestBody(req[r].event).threw THEN 500 ELSE 400]_vars

\* a refused request has been answered while a command is pending
FailedRequestFrameWitness ==
    /\ resp.status \in {400, 405, 500}
    /\ Pending("A") /\ commandQueue["A"].timestamp # Null

\* C22: in every state the timestamp of a slot is set exactly when a command
\* is pending in it, and a read returns a timestamp only together with code.
TimestampConsistency ==
    /\ \A i \in Instances : (commandQueue[i].timestamp # Null) <=> Pending(i)
    /\ (resp.timestamp # Null) => Truthy(resp.code)

\* C23: while the consumer keeps polling the instance and the instance is not
\* recycled, a pending command does not stay in the slot for ever: every
\* accepted write is overwritten by a later accepted write or its code is
\* taken out of the slot by a read that returns it.
EventualDelivery ==
    /\ Pending("A") ~> (~Pending("A") /\ prevOp["A"] = "read")
    /\ [][\A r \in Reqs : (Completes(r) /\ IsGet(r) /\ Pending("A") /\ ~Pending("A")')
            => resp'.code = commandQueue["A"].luaCode]_vars

\* a command has been delivered to a poll
EventualDeliveryWitness ==
    /\ ~Pending("A") /\ prevOp["A"] = "read"
    /\ resp.status = 200 /\ Truthy(resp.code)

====
